---- MODULE Spec2Model ----
(***************************************************************************)
(* A model of funpy's trigonometric representation (funpy/trig/trigtech.py)*)
(* and of the deflated Newton residual operator                            *)
(* (newton/deflated_residual.py).                                          *)
(*                                                                         *)
(* Complex floating point numbers are modelled exactly, as Gaussian        *)
(* rationals times a power of pi: [re, im, den, pe] stands for             *)
(* (re + i*im)/den * pi^pe.  Arrays of shape (n, m) are sequences of n rows*)
(* of m numbers; row j of the source (0-based) is element j+1.             *)
(***************************************************************************)
EXTENDS Integers, Sequences, FiniteSets, TLC

(***************************************************************************)
(* Bounds of the model.                                                    *)
(***************************************************************************)
MaxLen == 4
MaxCols == 2
MaxNonzero == 2

(***************************************************************************)
(* Exact complex arithmetic.                                               *)
(***************************************************************************)
Abs(x) == IF x < 0 THEN -x ELSE x

RECURSIVE Gcd(_, _)
Gcd(a, b) == IF b = 0 THEN a ELSE Gcd(b, a % b)

Zero == [re |-> 0, im |-> 0, den |-> 1, pe |-> 0]

Norm(re, im, den, pe) ==
    IF re = 0 /\ im = 0 THEN Zero
    ELSE LET g == Gcd(Gcd(Abs(re), Abs(im)), den)
         IN  [re |-> re \div g, im |-> im \div g, den |-> den \div g, pe |-> pe]

Cplx(re, im) == Norm(re, im, 1, 0)

One == Cplx(1, 0)

IsZero(a) == a.re = 0 /\ a.im = 0

Mul(a, b) ==
    Norm(a.re * b.re - a.im * b.im, a.re * b.im + a.im * b.re,
         a.den * b.den, a.pe + b.pe)

\* a + b; the two operands carry the same power of pi unless one is zero
Add(a, b) ==
    IF IsZero(a) THEN b
    ELSE IF IsZero(b) THEN a
    ELSE Norm(a.re * b.den + b.re * a.den, a.im * b.den + b.im * a.den,
              a.den * b.den, a.pe)

Neg(a) == Norm(-a.re, -a.im, a.den, a.pe)

Sub(a, b) == Add(a, Neg(b))

Conj(a) == Norm(a.re, -a.im, a.den, a.pe)

RealPart(a) == Norm(a.re, 0, a.den, a.pe)

Half(a) == Norm(a.re, a.im, 2 * a.den, a.pe)

Twice(a) == Norm(2 * a.re, 2 * a.im, a.den, a.pe)

\* 1 / b for b # 0
Inv(b) ==
    Norm(b.re * b.den, -b.im * b.den, b.re * b.re + b.im * b.im, -b.pe)

\* a / b for b # 0
Div(a, b) == Mul(a, Inv(b))

(***************************************************************************)
(* Arrays.                                                                 *)
(***************************************************************************)
NRows(c) == Len(c)

NCols(c) == IF Len(c) = 0 THEN 0 ELSE Len(c[1])

Shape(c) == <<NRows(c), NCols(c)>>

\* np.zeros((k, m))
Zeros(k, m) == [j \in 1..k |-> [q \in 1..m |-> Zero]]

\* c[lo:hi, :] with 0-based, half-open bounds
Slice(c, lo, hi) == SubSeq(c, lo + 1, hi)

MapRow(Op(_), row) == [q \in 1..Len(row) |-> Op(row[q])]

Column(c, q) == [j \in 1..Len(c) |-> c[j][q]]

(***************************************************************************)
(* Coefficient transform layer (funpy/trig/transform.py).  The samples of  *)
(* a trigonometric polynomial are kept as a record naming the Fourier      *)
(* coefficients they are the inverse transform of; the two transforms are  *)
(* exact inverses of each other.                                           *)
(***************************************************************************)
coeffs2vals(c) == [hat |-> c]

vals2coeffs(v) == v.hat

EmptyArray == << >>

\* Coefficient (j, q) of the real part of the samples with coefficients c:
\* the conjugate-symmetric part of column q.  On an even grid the first row
\* is the mode -n/2, whose samples are real.
RealCoeff(c, j, q) ==
    LET n == Len(c)
    IN  IF n % 2 = 0
        THEN IF j = 1 THEN RealPart(c[1][q])
             ELSE Half(Add(c[j][q], Conj(c[n + 2 - j][q])))
        ELSE Half(Add(c[j][q], Conj(c[n + 1 - j][q])))

\* Coefficient (j, q) of the complex conjugate of the samples with
\* coefficients c
ConjCoeff(c, j, q) ==
    LET n == Len(c)
    IN  IF n % 2 = 0
        THEN IF j = 1 THEN Conj(c[1][q]) ELSE Conj(c[n + 2 - j][q])
        ELSE Conj(c[n + 1 - j][q])

\* values[:, id] = np.conj(values[:, id])
ConjValues(v, id) ==
    [hat |-> [j \in 1..Len(v.hat) |->
                [q \in 1..Len(v.hat[j]) |->
                    IF id[q] THEN ConjCoeff(v.hat, j, q) ELSE v.hat[j][q]]]]

\* coeffs[:, id] = np.flipud(np.conj(coeffs[:, id]))
FlipConj(c, id) ==
    [j \in 1..Len(c) |->
        [q \in 1..Len(c[j]) |->
            IF id[q] THEN Conj(c[Len(c) + 1 - j][q]) ELSE c[j][q]]]

\* values[:, isReal] = np.real(values[:, isReal])
ForceReal(v, isReal) ==
    [hat |-> [j \in 1..Len(v.hat) |->
                [q \in 1..Len(v.hat[j]) |->
                    IF isReal[q] THEN RealCoeff(v.hat, j, q) ELSE v.hat[j][q]]]]

\* np.imag(values[:, q]) vanishes
ImagIsZero(v, q) ==
    \A j \in 1..Len(v.hat) : RealCoeff(v.hat, j, q) = v.hat[j][q]

(***************************************************************************)
(* trigtech: the representation.                                           *)
(***************************************************************************)
\* The threshold 3*eps*vscl is far below the size of any nonzero number of
\* the model, so a column is real iff its imaginary part vanishes.
get_isreal(v, m) == [q \in 1..m |-> ImagIsZero(v, q)]

\* trigtech(coeffs=c, ...): the branch for explicit coefficients
trigtech(c) ==
    LET vals == coeffs2vals(c)
        isReal == get_isreal(vals, NCols(c))
    IN  [coeffs |-> c,
         values |-> ForceReal(vals, isReal),
         ishappy |-> TRUE,
         isReal |-> isReal]

\* trigtech(values=v, coeffs=c, ...): both arrays given, neither recomputed
trigtech_vc(v, c) ==
    LET isReal == get_isreal(v, NCols(c))
    IN  [coeffs |-> c,
         values |-> ForceReal(v, isReal),
         ishappy |-> TRUE,
         isReal |-> isReal]

n_(f) == NRows(f.coeffs)

m_(f) == NCols(f.coeffs)

\* 0-based row of the constant mode
const_index(f) ==
    IF n_(f) % 2 = 1 THEN (n_(f) + 1) \div 2 - 1 ELSE n_(f) \div 2

\* np.vstack((0.5 * coeffs[0, :], coeffs[1:, :], 0.5 * coeffs[0, :]))
SplitEdge(c) == <<MapRow(Half, c[1])>> \o Tail(c) \o <<MapRow(Half, c[1])>>

\* coeffs[0, :] = 2*coeffs[0, :]
DoubleEdge(c) == [c EXCEPT ![1] = MapRow(Twice, c[1])]

\* The doubling of the retained edge coefficient, left out
ChopEdgeKept(c, kup, kdown) == c

ChopEdge(c, kup, kdown) == IF kup < kdown THEN DoubleEdge(c) ELSE c

\* self.coeffs = coeffs; self.values = coeffs2vals(self.coeffs);
\* self.values[:, self.isReal] = np.real(self.values[:, self.isReal])
StoreCoeffs(f, c) ==
    [f EXCEPT !.coeffs = c,
              !.values = ForceReal(coeffs2vals(c), f.isReal)]

prolong(f, Nout) ==
    LET Nin0 == n_(f)
        even == Nin0 % 2 = 0
        coeffs == IF even THEN SplitEdge(f.coeffs) ELSE f.coeffs
        Nin == IF even THEN Nin0 + 1 ELSE Nin0
        m == NCols(coeffs)
    IN  IF Nout = Nin0 THEN f
        ELSE IF Nin = Nout THEN StoreCoeffs(f, coeffs)
        ELSE IF Nout > Nin
        THEN LET kup == (Nout - Nin + 1) \div 2
                 kdown == (Nout - Nin) \div 2
             IN  StoreCoeffs(f, Zeros(kup, m) \o coeffs \o Zeros(kdown, m))
        ELSE LET kup == (Nin - Nout) \div 2
                 kdown == (Nin - Nout + 1) \div 2
             IN  StoreCoeffs(f, ChopEdge(Slice(coeffs, kup, Nin - kdown),
                                         kup, kdown))

\* The coefficient simplification primitive (funpy/trig/trig_simplify.py):
\* the length is made odd and the all-zero pairs of edge rows are dropped.
RowIsZero(row) == \A q \in 1..Len(row) : IsZero(row[q])

RECURSIVE StripZeroEdges(_)
StripZeroEdges(c) ==
    IF Len(c) >= 3 /\ RowIsZero(c[1]) /\ RowIsZero(c[Len(c)])
    THEN StripZeroEdges(Slice(c, 1, Len(c) - 1))
    ELSE c

simplify_coeffs(c, isReal) ==
    LET odd == IF Len(c) % 2 = 0 THEN SplitEdge(c) ELSE c
        chopped == StripZeroEdges(odd)
    IN  [values |-> ForceReal(coeffs2vals(chopped), isReal), coeffs |-> chopped]

simplify(f) ==
    IF ~f.ishappy THEN f
    ELSE LET r == simplify_coeffs(f.coeffs, f.isReal)
         IN  [f EXCEPT !.values = r.values, !.coeffs = r.coeffs]

(***************************************************************************)
(* The representations a caller builds from explicit coefficients: up to   *)
(* MaxLen rows and MaxCols columns, with at most MaxNonzero nonzero entries*)
(***************************************************************************)
NonzeroVals == {Cplx(1, 0), Cplx(0, 1), Cplx(0, -1)}

Cells(n, m) == (1..n) \X (1..m)

Supports(n, m) == {S \in SUBSET Cells(n, m) : Cardinality(S) <= MaxNonzero}

Fill(n, m, S, a) ==
    [j \in 1..n |-> [q \in 1..m |-> IF <<j, q>> \in S THEN a[<<j, q>>] ELSE Zero]]

\* A representation built from explicit coefficients: trigtech(coeffs=c)
IsInitial(g) ==
    \E n \in 1..MaxLen : \E m \in 1..MaxCols :
    \E S \in Supports(n, m) : \E a \in [S -> NonzeroVals] :
        g = trigtech(Fill(n, m, S, a))

(***************************************************************************)
(* Calculus operators.                                                     *)
(***************************************************************************)
None == [none |-> TRUE]

RECURSIVE Pow(_, _)
Pow(a, k) == IF k = 0 THEN One ELSE Mul(a, Pow(a, k - 1))

\* 1j * np.pi * k
IPiK(k) == Norm(0, k, 1, 1)

\* -1j / k / np.pi for k # 0
InvIPiK(k) == IF k > 0 THEN Norm(0, -1, k, -1) ELSE Norm(0, 1, -k, -1)

\* (-1+0j)**k
Sign(k) == IF k % 2 = 0 THEN One ELSE Cplx(-1, 0)

ScaleRow(row, a) == [q \in 1..Len(row) |-> Mul(row[q], a)]

ZeroRow(m) == [q \in 1..m |-> Zero]

\* The wavenumber diff gives to the 0-based row j of a representation of
\* length m
waveNumber(m, j) ==
    IF m % 2 = 1 THEN j - (m - 1) \div 2 ELSE j - m \div 2

diff(f, n) ==
    LET m == n_(f)
        c == [j \in 1..m |-> ScaleRow(f.coeffs[j], Pow(IPiK(waveNumber(m, j - 1)), n))]
    IN  trigtech(c)

\* floor((n+2)/2) - 1
SumRowBelow(n) == (n - 1) \div 2

SumRow(n) == (n + 2) \div 2 - 1

sum(f) ==
    LET row == MapRow(Twice, f.coeffs[SumRow(n_(f)) + 1])
    IN  [q \in 1..Len(row) |-> IF f.isReal[q] THEN RealPart(row[q]) ELSE row[q]]

\* The row cumsum reads as the mean
MeanRow(n) == IF n % 2 = 0 THEN n \div 2 + 1 ELSE (n + 1) \div 2

\* np.any(np.abs(row)) > 1e1*f.vscale*f.eps: the threshold, 1e-19 for a
\* representation built with the default scales, is below True
MeanCheck(row) == \E q \in 1..Len(row) : ~IsZero(row[q])

RECURSIVE SumSeq(_)
SumSeq(s) == IF Len(s) = 0 THEN Zero ELSE Add(s[1], SumSeq(Tail(s)))

\* np.sum(c * (-1+0j)**sumIndices) with sumIndices = -hd..hd
SignedTotal(c, hd) ==
    SumSeq([j \in 1..Len(c) |-> SumSeq(ScaleRow(c[j], Sign(j - 1 - hd)))])

\* The operand's coefficient array after cumsum has written into it
CumsumInPlace(c, n) ==
    IF n % 2 = 0
    THEN LET z == [c EXCEPT ![n \div 2 + 1] = ZeroRow(Len(c[1]))]
         IN  [z EXCEPT ![1] = MapRow(Half, z[1])]
    ELSE [c EXCEPT ![(n + 1) \div 2 + 1] = ZeroRow(Len(c[1]))]

\* The 0-based row that receives the constant of integration
ConstRow(hd) == hd + 1

cumsum(f, m) ==
    LET n == n_(f)
        isEven == n % 2 = 0
        ind == MeanRow(n)
        cols == m_(f)
    IN  IF ind >= n
        THEN [err |-> "IndexError", out |-> None, f |-> f]
        ELSE IF MeanCheck(f.coeffs[ind + 1])
        THEN [err |-> "RuntimeError", out |-> None, f |-> f]
        ELSE LET c1 == CumsumInPlace(f.coeffs, n)
                 c2 == IF isEven THEN c1 \o <<c1[1]>> ELSE c1
                 hd == IF isEven THEN n \div 2 ELSE (n - 1) \div 2
                 c3 == [j \in 1..Len(c2) |->
                          IF j - 1 = hd THEN ZeroRow(cols)
                          ELSE ScaleRow(c2[j], Pow(InvIPiK(j - 1 - hd), m))]
                 c4 == IF m % 2 = 1 /\ isEven
                       THEN [c3 EXCEPT ![1] = ZeroRow(cols), ![n + 1] = ZeroRow(cols)]
                       ELSE c3
                 total == Neg(SignedTotal(c4, hd))
                 c5 == [c4 EXCEPT ![ConstRow(hd) + 1] = [q \in 1..cols |-> total]]
                 c6 == IF isEven THEN Slice(c5, 0, n) ELSE c5
             IN  [err |-> "none", out |-> trigtech(c6),
                  f |-> [f EXCEPT !.coeffs = c1]]

\* The coefficients on an odd number of rows, as the resampling primitive of
\* funpy/trig/trig_simplify.py lays them out
OddForm(c) == IF Len(c) % 2 = 0 THEN SplitEdge(c) ELSE c

\* Coefficient of wavenumber k (zero outside the band)
AtWave(c, k, q) ==
    LET j == k + (Len(c) - 1) \div 2 + 1
    IN  IF j >= 1 /\ j <= Len(c) THEN c[j][q] ELSE Zero

\* The quadrature on n1 + n2 points is exact for the product, so the inner
\* product is 2 * sum_k f_k conj(g_k)
inner(trig1, trig2) ==
    LET a == OddForm(trig1.coeffs)
        b == OddForm(trig2.coeffs)
        K == (Len(a) - 1) \div 2
        allReal == \A p \in 1..m_(trig1) : \A q \in 1..m_(trig2) :
                      trig1.isReal[p] /\ trig2.isReal[q]
        entry(p, q) == Twice(SumSeq([j \in 1..Len(a) |->
                          Mul(a[j][p], Conj(AtWave(b, j - 1 - K, q)))]))
    IN  [p \in 1..m_(trig1) |-> [q \in 1..m_(trig2) |->
            IF allReal THEN RealPart(entry(p, q)) ELSE entry(p, q)]]

MaxOrder == 2

VARIABLES f, f0, path, res, A, A0, Pc, out, nT, pop, ctor

trigVars == <<f, f0, path, res>>

deflVars == <<A, A0, Pc, out, nT, pop, ctor>>

vars == <<f, f0, path, res, A, A0, Pc, out, nT, pop, ctor>>

\* np.conj(trig)
conj(trig) ==
    LET id == [q \in 1..m_(trig) |-> ~trig.isReal[q]]
    IN  IF \A q \in 1..m_(trig) : id[q]
        THEN trig
        ELSE trigtech_vc(ConjValues(trig.values, id), FlipConj(trig.coeffs, id))

\* The variables of the deflated operator, while a representation is studied
DeflIdle ==
    /\ A = None /\ A0 = None /\ Pc = None /\ out = None
    /\ nT = [M |-> 0, Pf |-> 0]
    /\ pop = None
    /\ ctor = None

\* The variables of the representation, while an operator is studied
TrigIdle ==
    /\ f = None /\ f0 = None /\ path = "new" /\ res = None
    /\ pop = None
    /\ ctor = None

NoCall == [op |-> "none", arg |-> 0, err |-> "none", out |-> None]

(***************************************************************************)
(* A calculus operator applied to a representation built from explicit     *)
(* coefficients, and diff applied to the result of cumsum.                 *)
(***************************************************************************)
Init ==
    /\ IsInitial(f0)
    /\ f = f0
    /\ path = "new"
    /\ res = NoCall
    /\ DeflIdle

Diff ==
    /\ res.op = "none"
    /\ \E n \in 1..MaxOrder :
          res' = [op |-> "diff", arg |-> n, err |-> "none", out |-> diff(f, n)]
    /\ UNCHANGED <<f, f0, path, deflVars>>

Cumsum ==
    /\ res.op = "none"
    /\ \E m \in 1..MaxOrder :
          LET r == cumsum(f, m)
          IN  /\ res' = [op |-> "cumsum", arg |-> m, err |-> r.err, out |-> r.out]
              /\ f' = r.f
    /\ UNCHANGED <<f0, path, deflVars>>

Sum ==
    /\ res.op = "none"
    /\ res' = [op |-> "sum", arg |-> 0, err |-> "none", out |-> sum(f)]
    /\ UNCHANGED <<f, f0, path, deflVars>>

Inner ==
    /\ res.op = "none"
    /\ res' = [op |-> "inner", arg |-> 0, err |-> "none", out |-> inner(f, f)]
    /\ UNCHANGED <<f, f0, path, deflVars>>

\* np.conj(f)
Conj_ ==
    /\ res.op = "none"
    /\ res' = [op |-> "conj", arg |-> 0, err |-> "none", out |-> conj(f)]
    /\ UNCHANGED <<f, f0, path, deflVars>>

\* diff(cumsum(f, 1), 1)
DiffOfCumsum ==
    /\ res.op = "cumsum" /\ res.err = "none"
    /\ res' = [op |-> "diffcumsum", arg |-> res.arg, err |-> "none",
               out |-> diff(res.out, res.arg)]
    /\ UNCHANGED <<f, f0, path, deflVars>>

\* The lengths asked of prolong: one less and one more than the original
\* length, the original length and its double
Targets == {n_(f0) - 1, n_(f0), n_(f0) + 1, 2 * n_(f0)} \ {0}

\* f.prolong(Nout)
Resize ==
    /\ res.op = "none"
    /\ \E Nout \in Targets :
          /\ f' = prolong(f, Nout)
          /\ res' = [op |-> "prolong", arg |-> Nout, err |-> "none", out |-> None]
    /\ UNCHANGED <<f0, path, deflVars>>

Next == Diff \/ Cumsum \/ Sum \/ Inner \/ DiffOfCumsum \/ Conj_

Spec == Init /\ [][Next]_vars

\* The operations that address the zero-frequency row, prolong among them
NextMode == Diff \/ Sum \/ Resize

SpecMode == Init /\ [][NextMode]_vars

(***************************************************************************)
(* Resizing a representation in place.                                     *)
(***************************************************************************)
InitResize ==
    /\ IsInitial(f0)
    /\ f = f0
    /\ path = "new"
    /\ res = NoCall
    /\ DeflIdle

NextPath(Nout) ==
    IF path = "new" /\ Nout = 2 * n_(f0) THEN "up"
    ELSE IF path = "up" /\ Nout = n_(f0) THEN "updown"
    ELSE "other"

Prolong ==
    \E Nout \in Targets :
        /\ f' = prolong(f, Nout)
        /\ path' = NextPath(Nout)
        /\ UNCHANGED <<f0, res, deflVars>>

Simplify ==
    /\ f' = simplify(f)
    /\ path' = "other"
    /\ UNCHANGED <<f0, res, deflVars>>

NextResize == Prolong \/ Simplify

SpecResize == InitResize /\ [][NextResize]_vars

(***************************************************************************)
(* The deflated residual operator (newton/deflated_residual.py).  Vectors  *)
(* are sequences of Dim numbers, matrices sequences of rows.  An optional  *)
(* attribute is None or Some(value).                                       *)
(***************************************************************************)
Dim == 2
MaxKnown == 2

Some(v) == [some |-> v]

Real(k) == Cplx(k, 0)

VecAdd(u, v) == [i \in 1..Len(u) |-> Add(u[i], v[i])]

VecSub(u, v) == [i \in 1..Len(u) |-> Sub(u[i], v[i])]

VecScale(v, a) == [i \in 1..Len(v) |-> Mul(v[i], a)]

VecDiv(v, a) == [i \in 1..Len(v) |-> Div(v[i], a)]

Dot(u, v) == SumSeq([i \in 1..Len(u) |-> Mul(u[i], v[i])])

\* M._mul_vector(x), Pf.dot(x)
MatVec(M, x) == [i \in 1..Len(M) |-> Dot(M[i], x)]

\* M.transpose()
Transpose(M) == [j \in 1..Len(M[1]) |-> [i \in 1..Len(M) |-> M[i][j]]]

ZeroVec == [i \in 1..Dim |-> Zero]

UnitVec(k) == [i \in 1..Dim |-> IF i = k THEN One ELSE Zero]

OnesVec == [i \in 1..Dim |-> One]

Vecs == {ZeroVec, OnesVec} \cup {UnitVec(k) : k \in 1..Dim}

\* The matrices (M, P) a discretization hands out: the identity, and a shear
\* with its exact inverse or with the identity as a rough preconditioner
ScaledId(a) == [i \in 1..Dim |-> [j \in 1..Dim |-> IF i = j THEN a ELSE Zero]]

ShearMat(a) ==
    [i \in 1..Dim |-> [j \in 1..Dim |->
        IF i = j THEN One ELSE IF i = 1 /\ j = 2 THEN a ELSE Zero]]

Matrices ==
    { [M |-> ScaledId(One), P |-> ScaledId(One)],
      [M |-> ShearMat(One), P |-> ShearMat(Real(-1))],
      [M |-> ShearMat(One), P |-> ScaledId(One)] }

\* colloc.rhs(): the plain right-hand sides
RhsVals == {UnitVec(1), OnesVec}

\* kwargs.get('shift', 1.0), kwargs.get('power', 2)
shift == 1
power == 2

\* h1norm(v)**2: the norm of the model is the Euclidean one
h1norm2(v) == Dot(v, v)

\* shift + 1. / h1norm(u - ks)**power, with power = 2
DeflFactor(u, ks) == Add(Real(shift), Div(One, h1norm2(VecSub(u, ks))))

\* __deflation(u)
RECURSIVE deflation(_, _)
deflation(u, known) ==
    IF Len(known) = 0 THEN One
    ELSE Mul(DeflFactor(u, known[1]), deflation(u, Tail(known)))

\* The sum of diff / (defl * diff_norm**(2 + power)) over the known solutions
RECURSIVE DeflFunction(_, _)
DeflFunction(u, known) ==
    IF Len(known) = 0 THEN ZeroVec
    ELSE LET d == VecSub(u, known[1])
             n2 == h1norm2(d)
         IN  VecAdd(VecDiv(d, Mul(DeflFactor(u, known[1]), Mul(n2, n2))),
                    DeflFunction(u, Tail(known)))

\* __compute_der_deflation(u): (eta, functional); the functional is kept as
\* the vector it takes the inner product with
compute_der_deflation(u, known) ==
    IF Len(known) = 0 THEN [eta |-> One, functional |-> None]
    ELSE LET eta == deflation(u, known)
         IN  [eta |-> eta,
              functional |->
                  Some(VecScale(DeflFunction(u, known), Mul(Real(-power), eta)))]

\* functional(c)
ApplyFunctional(fn, c) == Dot(fn.some, c)

\* The right-hand side as left by the constructor
StoredRhsPlain(b, eta, known) == b

StoredRhs(b, eta, known) == IF Len(known) > 0 THEN VecScale(b, eta) ELSE b

\* DeflatedResidual(u, operator, ks=known)
DeflatedResidual(u, mats, b, known) ==
    LET d == compute_der_deflation(u, known)
    IN  [M |-> mats.M, P |-> mats.P, b |-> StoredRhs(b, d.eta, known),
         MT |-> None, known_solutions |-> known,
         eta |-> d.eta, functional |-> d.functional]

\* DeflatedResidual._matvec(c)
matvec(self, c) ==
    IF Len(self.known_solutions) = 0 THEN MatVec(self.M, c)
    ELSE LET deta == ApplyFunctional(self.functional, c)
         IN  VecAdd(VecScale(MatVec(self.M, c), self.eta), VecScale(self.b, deta))

\* The transpose cache after a call of _rmatvec
CacheTranspose(cache, M) == IF cache = None THEN Some(Transpose(M)) ELSE cache

\* The outcome of the deflated adjoint: assert False
DeflatedAdjointReturns(self, MT, x) ==
    [err |-> "none",
     y |-> Some(VecAdd(VecScale(MatVec(MT, x), self.eta),
                       VecScale(self.b, ApplyFunctional(self.functional, x))))]

DeflatedAdjoint(self, MT, x) == [err |-> "AssertionError", y |-> None]

\* DeflatedResidual._rmatvec(x): the outcome and the operator afterwards
rmatvec(self, x) ==
    LET MT == CacheTranspose(self.MT, self.M)
        after == [self EXCEPT !.MT = MT]
    IN  IF Len(self.known_solutions) = 0
        THEN [err |-> "none", y |-> Some(MatVec(MT.some, x)), self |-> after]
        ELSE LET r == DeflatedAdjoint(self, MT.some, x)
             IN  [err |-> r.err, y |-> r.y, self |-> after]

\* DeflatedResidual.rhs(u): res is colloc.rhs(u); a raw state has no
\* attribute u
rhs(self, u, isWrapper, plain) ==
    IF Len(self.known_solutions) = 0 THEN [err |-> "none", y |-> Some(plain)]
    ELSE IF ~isWrapper THEN [err |-> "AttributeError", y |-> None]
    ELSE [err |-> "none",
          y |-> Some(VecScale(plain, deflation(u, self.known_solutions)))]

\* LinearOperator.tosparse() (pylops): the matrix whose columns are the
\* operator applied to the unit vectors
tosparse(self) ==
    [i \in 1..Dim |-> [j \in 1..Dim |-> matvec(self, UnitVec(j))[i]]]

\* DeflatedResidual.to_matrix()
to_matrix(self) ==
    IF Len(self.known_solutions) = 0 THEN self.M ELSE tosparse(self)

\* DeflatedResidualPrecond(Pf, b, ks=, functional=, eta=)
DeflatedResidualPrecond(Pf, b, ks, functional, eta) ==
    [Pf |-> Pf, PfT |-> None, b |-> b, ks |-> ks, eta |-> eta,
     functional |-> functional,
     denom |-> IF functional # None
               THEN Some(Add(Mul(eta, eta), ApplyFunctional(functional, b)))
               ELSE None]

\* precond() handing out a preconditioner in plain mode
precondPlain(self) ==
    DeflatedResidualPrecond(self.P, self.b, 0, self.functional, self.eta)

\* DeflatedResidual.precond()
precond(self) ==
    DeflatedResidualPrecond(self.P, self.b, Len(self.known_solutions),
                            self.functional, self.eta)

\* DeflatedResidualPrecond._matvec(x)
pmatvec(self, x) ==
    IF self.ks = 0 THEN [err |-> "none", y |-> Some(MatVec(self.Pf, x))]
    ELSE LET term1 == MatVec(self.Pf, x)
         IN  IF IsZero(self.denom.some)
             THEN [err |-> "ZeroDivision", y |-> None]
             ELSE LET term2 == VecScale(self.b,
                                  Div(ApplyFunctional(self.functional, term1),
                                      self.denom.some))
                  IN  [err |-> "none",
                       y |-> Some(VecDiv(VecSub(term1, term2), self.eta))]

\* DeflatedResidualPrecond._rmatvec(x)
prmatvec(self, x) ==
    LET PfT == CacheTranspose(self.PfT, self.Pf)
        after == [self EXCEPT !.PfT = PfT]
    IN  IF self.ks = 0
        THEN [err |-> "none", y |-> Some(MatVec(PfT.some, x)), self |-> after]
        ELSE [err |-> "AssertionError", y |-> None, self |-> after]

\* The known solutions: up to MaxKnown distinct states other than u, in a
\* fixed order
VecList == <<ZeroVec, OnesVec>> \o [k \in 1..Dim |-> UnitVec(k)]

RECURSIVE Ascending(_)
Ascending(S) ==
    IF S = {} THEN << >>
    ELSE LET k == CHOOSE i \in S : \A j \in S : i <= j
         IN  <<VecList[k]>> \o Ascending(S \ {k})

KnownLists(u) ==
    {Ascending(S) : S \in {T \in SUBSET {k \in 1..Len(VecList) : VecList[k] # u} :
                              Cardinality(T) <= MaxKnown}}

\* The vectors the operators are applied to
Inputs == {OnesVec} \cup {UnitVec(k) : k \in 1..Dim}

\* The states at which the operator is linearized
States == {ZeroVec, UnitVec(1)}

NoOut == [op |-> "none", x |-> ZeroVec, err |-> "none", y |-> None]

\* The operator right after construction at the state u; A0 keeps what the
\* discretization handed out and the operator as constructed
InitDefl ==
    /\ TrigIdle
    /\ \E u \in States : \E known \in KnownLists(u) :
       \E mats \in Matrices : \E b \in RhsVals :
          /\ A = DeflatedResidual(u, mats, b, known)
          /\ A0 = [u |-> u, plain |-> b, self |-> A]
    /\ Pc = None
    /\ out = NoOut
    /\ nT = [M |-> 0, Pf |-> 0]

Matvec ==
    /\ \E x \in Inputs :
          out' = [op |-> "matvec", x |-> x, err |-> "none", y |-> Some(matvec(A, x))]
    /\ UNCHANGED <<trigVars, pop, ctor, A, A0, Pc, nT>>

Rmatvec ==
    /\ \E x \in Inputs :
          LET r == rmatvec(A, x)
          IN  /\ out' = [op |-> "rmatvec", x |-> x, err |-> r.err, y |-> r.y]
              /\ A' = r.self
    /\ nT' = IF A.MT = None THEN [nT EXCEPT !.M = @ + 1] ELSE nT
    /\ UNCHANGED <<trigVars, pop, ctor, A0, Pc>>

\* rhs(u) at a trial state that is none of the known solutions (at a known
\* solution the deflation factor divides by zero)
Rhs ==
    /\ \E u \in States : \E isWrapper \in BOOLEAN : \E plain \in RhsVals :
          /\ \A k \in 1..Len(A.known_solutions) : A.known_solutions[k] # u
          /\ LET r == rhs(A, u, isWrapper, plain)
             IN  out' = [op |-> "rhs", x |-> u, err |-> r.err, y |-> r.y]
    /\ UNCHANGED <<trigVars, pop, ctor, A, A0, Pc, nT>>

Precond ==
    /\ Pc' = precond(A)
    /\ out' = [op |-> "precond", x |-> ZeroVec, err |-> "none", y |-> None]
    /\ nT' = [nT EXCEPT !.Pf = 0]
    /\ UNCHANGED <<trigVars, pop, ctor, A, A0>>

PrecondMatvec ==
    /\ Pc # None
    /\ \E x \in Inputs :
          LET r == pmatvec(Pc, x)
          IN  out' = [op |-> "pmatvec", x |-> x, err |-> r.err, y |-> r.y]
    /\ UNCHANGED <<trigVars, pop, ctor, A, A0, Pc, nT>>

\* precond.matvec(A.matvec(x)): the preconditioner applied to the vector the
\* last matvec returned
PrecondOfMatvec ==
    /\ Pc # None
    /\ out.op = "matvec"
    /\ LET r == pmatvec(Pc, out.y.some)
       IN  out' = [op |-> "pmatvec_matvec", x |-> out.x, err |-> r.err, y |-> r.y]
    /\ UNCHANGED <<trigVars, pop, ctor, A, A0, Pc, nT>>

PrecondRmatvec ==
    /\ Pc # None
    /\ \E x \in Inputs :
          LET r == prmatvec(Pc, x)
          IN  /\ out' = [op |-> "prmatvec", x |-> x, err |-> r.err, y |-> r.y]
              /\ Pc' = r.self
    /\ nT' = IF Pc.PfT = None THEN [nT EXCEPT !.Pf = @ + 1] ELSE nT
    /\ UNCHANGED <<trigVars, pop, ctor, A, A0>>

ToMatrix ==
    /\ out' = [op |-> "to_matrix", x |-> ZeroVec, err |-> "none",
               y |-> Some(to_matrix(A))]
    /\ UNCHANGED <<trigVars, pop, ctor, A, A0, Pc, nT>>

NextDefl ==
    \/ Matvec \/ Rmatvec \/ Rhs \/ Precond \/ ToMatrix
    \/ PrecondMatvec \/ PrecondOfMatvec \/ PrecondRmatvec

SpecDefl == InitDefl /\ [][NextDefl]_vars

(***************************************************************************)
(* Construction from a callable: trigtech(op=...) and the adaptive loop of *)
(* populate.  The samples of the callable are not computed: an array is    *)
(* kept as its shape and the sampling it stems from (gen), so that values  *)
(* and coeffs are a transform pair iff the two records are equal.          *)
(***************************************************************************)
maxLength == 4096

\* The first grid of Refine (funpy/trig/refine.py)
minSamples == 17

NoArray == [rows |-> 0, cols |-> 0, gen |-> 0]

\* The refinement step (funpy/trig/refine.py): the grid grows strictly from
\* call to call; once it would exceed maxLength the values so far are
\* returned with giveUp = True
NextGrid(values, first) == IF values.rows = 0 THEN first ELSE 2 * values.rows - 1

refine(values, first, cols) ==
    LET n == NextGrid(values, first)
    IN  IF n > maxLength
        THEN [values |-> values, giveUp |-> TRUE]
        ELSE [values |-> [rows |-> n, cols |-> cols, gen |-> values.gen + 1],
              giveUp |-> FALSE]

\* The cutoffs standardChopCmplx may return for a column of n coefficients
Cutoffs(n) == {1, n - 1, n} \ {0}

Max(S) == CHOOSE x \in S : \A y \in S : y <= x

\* happy() without the halving of the cutoffs
happyUnhalved(n, chop) ==
    [ishappy |-> \A k \in 1..Len(chop) : chop[k] < n,
     cutoff |-> 2 * Max({chop[k] : k \in 1..Len(chop)}) + 1]

\* happy(): chop[k] is the cutoff of column k; the columns are scanned up to
\* the first unhappy one
happy(n, chop) ==
    LET m == Len(chop)
        unhappy == {k \in 1..m : ~(chop[k] < n)}
        last == IF unhappy = {} THEN m ELSE CHOOSE k \in unhappy : \A j \in unhappy : k <= j
        halved == {chop[k] \div 2 : k \in 1..last} \cup {0}
    IN  [ishappy |-> unhappy = {}, cutoff |-> 2 * Max(halved) + 1]

\* self.prolong(cutoff) on the shapes: coeffs resized, values recomputed
prolongShape(coeffs, Nout) == [coeffs EXCEPT !.rows = Nout]

Probes == {"real", "complex", "nan", "inf"}

OpKinds == {"callable", "list", "refine"}

\* A caller's refinement object may start on any grid; the one the
\* constructor builds starts on minSamples
FirstGrids(kind) ==
    IF kind = "refine" THEN {minSamples, maxLength + 1} ELSE {minSamples}

InitPop ==
    /\ f = None /\ f0 = None /\ path = "new" /\ res = None
    /\ A = None /\ A0 = None /\ Pc = None /\ out = None
    /\ nT = [M |-> 0, Pf |-> 0]
    /\ ctor = None
    /\ \E kind \in OpKinds : \E probe \in Probes : \E cols \in 1..MaxCols :
       \E first \in FirstGrids(kind) :
          pop = [pc |-> "init", kind |-> kind, probe |-> probe, cols |-> cols,
                 first |-> first, values |-> NoArray, coeffs |-> NoArray,
                 ishappy |-> FALSE, local |-> "unbound", checked |-> FALSE,
                 calls |-> 0, giveUp |-> FALSE, realForced |-> FALSE,
                 n |-> 0, chop |-> << >>, cutoff |-> 0,
                 err |-> "none"]

\* __check_callable(op): the probe of the callable
check_callable(probe) ==
    IF probe \in {"nan", "inf"} THEN "AssertionError" ELSE "none"

\* Whether __init__ probes the callable before populate
Probed(kind) == kind # "refine"

\* __init__, up to the call of populate
Dispatch ==
    /\ pop.pc = "init"
    /\ LET e == IF Probed(pop.kind) THEN check_callable(pop.probe) ELSE "none"
       IN  pop' = [pop EXCEPT !.checked = Probed(pop.kind),
                              !.err = e,
                              !.pc = IF e = "none" THEN "loop" ELSE "failed"]
    /\ UNCHANGED <<trigVars, ctor, A, A0, Pc, out, nT>>

\* One pass of the loop of populate
Iterate ==
    /\ pop.pc = "loop"
    /\ LET r == refine(pop.values, pop.first, pop.cols)
       IN  IF r.giveUp
           THEN pop' = [pop EXCEPT !.values = r.values, !.giveUp = TRUE,
                                   !.calls = @ + 1, !.pc = "leave"]
           ELSE \E chop \in [1..pop.cols -> Cutoffs(r.values.rows)] :
                   LET h == happy(r.values.rows, chop)
                       coeffs == r.values
                   IN  pop' = [pop EXCEPT
                          !.calls = @ + 1,
                          !.n = r.values.rows,
                          !.chop = [k \in 1..pop.cols |-> chop[k]],
                          !.cutoff = h.cutoff,
                          !.ishappy = h.ishappy,
                          !.local = IF h.ishappy THEN "true" ELSE "false",
                          !.coeffs = IF h.ishappy THEN prolongShape(coeffs, h.cutoff)
                                     ELSE coeffs,
                          !.values = IF h.ishappy THEN prolongShape(coeffs, h.cutoff)
                                     ELSE r.values,
                          !.pc = IF h.ishappy THEN "leave" ELSE "loop"]
    /\ UNCHANGED <<trigVars, ctor, A, A0, Pc, out, nT>>

\* populate, after the loop: self.ishappy = ishappy reads the local
Leave ==
    /\ pop.pc = "leave"
    /\ pop' = IF pop.local = "unbound"
              THEN [pop EXCEPT !.err = "UnboundLocalError", !.pc = "failed"]
              ELSE [pop EXCEPT !.ishappy = (pop.local = "true"),
                               !.realForced = TRUE, !.pc = "populated"]
    /\ UNCHANGED <<trigVars, ctor, A, A0, Pc, out, nT>>

\* __init__, after populate: the real flags, then simplify (a no-op unless
\* happy); the simplified length is at most the stored one
Finish ==
    /\ pop.pc = "populated"
    /\ \E rows \in {1, pop.coeffs.rows} :
          /\ (~pop.ishappy => rows = pop.coeffs.rows)
          /\ pop' = [pop EXCEPT !.coeffs.rows = rows, !.values.rows = rows,
                                !.pc = "done"]
    /\ UNCHANGED <<trigVars, ctor, A, A0, Pc, out, nT>>

NextPop == Dispatch \/ Iterate \/ Leave \/ Finish

SpecPop == InitPop /\ [][NextPop]_vars

(***************************************************************************)
(* DeflatedResidual.__init__, step by step, for a state u (the variable f) *)
(* of one column whose length may differ from the length n_disc the        *)
(* discretization works with.  ctor.linearized is the coefficient array of *)
(* u that discretize, matrix and rhs were evaluated on.                    *)
(***************************************************************************)
\* operator.discretize(u), colloc.matrix(), colloc.rhs(): M is square of
\* the discretization's size
discretize(u, n_disc) == [linearized |-> Some(u.coeffs), shape0 |-> n_disc]

\* np.product(u.shape)
StateSize(u) == n_(u) * m_(u)

InitBuild ==
    /\ IsInitial(f0) /\ m_(f0) = 1
    /\ f = f0
    /\ path = "new" /\ res = None
    /\ A = None /\ A0 = None /\ Pc = None /\ out = None
    /\ nT = [M |-> 0, Pf |-> 0]
    /\ pop = None
    /\ \E n_disc \in 1..MaxLen :
          ctor = [pc |-> "discretize", n_disc |-> n_disc, linearized |-> None,
                  shape0 |-> 0]

\* self.colloc = operator.discretize(u); self.M, self.P, self.S =
\* self.colloc.matrix(); self.b = self.colloc.rhs()
Discretize ==
    /\ ctor.pc = "discretize"
    /\ LET d == discretize(f, ctor.n_disc)
       IN  ctor' = [ctor EXCEPT !.linearized = d.linearized,
                                !.shape0 = d.shape0, !.pc = "shape"]
    /\ UNCHANGED <<f, f0, path, res, A, A0, Pc, out, nT, pop>>

\* if np.product(u.shape) != self.M.shape[0]: u.prolong(operator.n_disc)
Resample ==
    /\ ctor.pc = "shape"
    /\ f' = IF StateSize(f) # ctor.shape0 THEN prolong(f, ctor.n_disc) ELSE f
    /\ ctor' = [ctor EXCEPT !.pc = "setup"]
    /\ UNCHANGED <<f0, path, res, A, A0, Pc, out, nT, pop>>

\* The rest of __init__: the deflation data and the scaling of b
Setup ==
    /\ ctor.pc = "setup"
    /\ ctor' = [ctor EXCEPT !.pc = "done"]
    /\ UNCHANGED <<f, f0, path, res, A, A0, Pc, out, nT, pop>>

NextBuild == Discretize \/ Resample \/ Setup

SpecBuild == InitBuild /\ [][NextBuild]_vars

(***************************************************************************)
(* Properties of the calculus operators (Spec).                            *)
(***************************************************************************)
\* The zero-frequency coefficient is zero in every column
ZeroMean(g) == RowIsZero(g.coeffs[const_index(g) + 1])

\* C1: cumsum fails with the mean-not-zero error, and returns no
\* representation, exactly when the coefficient at the zero-frequency row of
\* its operand is nonzero in some column; with a zero mean it does not fail,
\* for every length n >= 1.
C1_MeanChecked ==
    res.op = "cumsum" =>
        IF ZeroMean(f0) THEN res.err = "none" /\ res.out # None
        ELSE res.err = "RuntimeError" /\ res.out = None

\* C2: for a zero-mean f, diff(cumsum(f, 1), 1) has the coefficient of f at
\* every nonzero wavenumber; only the zero-frequency row may differ.
C2_DiffOfCumsum ==
    (res.op = "diffcumsum" /\ res.arg = 1 /\ ZeroMean(f0)) =>
        /\ n_(res.out) = n_(f0)
        /\ \A j \in 1..n_(f0) :
              j - 1 # const_index(f0) => res.out.coeffs[j] = f0.coeffs[j]

\* C9: diff, cumsum, sum and inner leave the coeffs, values, length and
\* flags of their operand exactly as they were before the call, whether the
\* call returns or fails.
C9_Pure ==
    res.op \in {"diff", "cumsum", "sum", "inner"} => f = f0

(***************************************************************************)
(* Properties of resizing (SpecResize).                                    *)
(***************************************************************************)
\* C3: prolong(2n) followed by prolong(n) on a representation built from
\* explicit data of length n leaves length n and the original coefficients,
\* row for row, for odd and even n.
C3_RoundTrip ==
    path = "updown" => n_(f) = n_(f0) /\ f.coeffs = f0.coeffs

\* An even length with a nonzero edge coefficient went up and came back
C3_Witness ==
    /\ path = "updown"
    /\ n_(f0) % 2 = 0
    /\ ~IsZero(f0.coeffs[1][1])

\* C6: after prolong and simplify return, coeffs and values have the same
\* shape and values is the inverse transform of coeffs.
C6_TransformPair ==
    path # "new" =>
        /\ Shape(vals2coeffs(f.values)) = Shape(f.coeffs)
        /\ f.values = coeffs2vals(f.coeffs)

(***************************************************************************)
(* Properties of the deflated operator (SpecDefl).                         *)
(***************************************************************************)
IsInverse(P, M) == \A k \in 1..Dim : MatVec(P, MatVec(M, UnitVec(k))) = UnitVec(k)

\* C4: when Pf is the exact inverse of M, precond.matvec(A.matvec(x)) = x
\* for every x, with an empty known-solution set and with a non-empty one
\* whose denominator is nonzero.
C4_ShermanMorrison ==
    (/\ out.op = "pmatvec_matvec"
     /\ IsInverse(A.P, A.M)
     /\ (Pc.ks > 0 => ~IsZero(Pc.denom.some))) =>
        out.err = "none" /\ out.y = Some(out.x)

\* eta * (M c) + b * functional(c), entry by entry, from what the
\* discretization handed out and what construction fixed
C5_Expected(c) ==
    LET M == A0.self.M
        eta == A0.self.eta
        d == A0.self.functional
        Mc(i) == SumSeq([j \in 1..Dim |-> Mul(M[i][j], c[j])])
    IN  IF Len(A0.self.known_solutions) = 0
        THEN [i \in 1..Dim |-> Mc(i)]
        ELSE LET dc == SumSeq([j \in 1..Dim |-> Mul(d.some[j], c[j])])
             IN  [i \in 1..Dim |->
                    Add(Mul(eta, Mc(i)), Mul(Mul(A0.plain[i], eta), dc))]

C10_Adjoint(M, x) ==
    [j \in 1..Dim |-> SumSeq([i \in 1..Dim |-> Mul(M[i][j], x[i])])]

C7_GiveUpReturns ==
    pop.giveUp =>
        /\ pop.err = "none"
        /\ pop.pc \in {"populated", "done"} => ~pop.ishappy

\* C8: a callable input of any kind whose probe value is NaN or Inf is
\* rejected before the first refinement pass: the loop never runs, nothing
\* is stored and the construction fails.
C8_ProbeRejects ==
    (pop.probe \in {"nan", "inf"} /\ pop.pc # "init") =>
        /\ pop.err = "AssertionError"
        /\ pop.calls = 0
        /\ pop.values = NoArray /\ pop.coeffs = NoArray

(***************************************************************************)
(* Further properties of the calculus operators (Spec, SpecMode).          *)
(***************************************************************************)
\* C11: diff(f, order) returns a new representation that is not marked
\* happy, whatever the operand's own flag.
C11_DiffNotHappy ==
    res.op = "diff" => ~res.out.ishappy

\* The 0-based row of the zero-frequency mode for length n
C12_Row(n) == IF n % 2 = 0 THEN n \div 2 ELSE (n + 1) \div 2 - 1

\* C12: the zero-frequency mode lives at row n//2 (n even) or (n+1)//2 - 1
\* (n odd) and the operations agree on it: const_index returns that row, sum
\* returns twice the coefficient stored there (real part for a real column),
\* diff multiplies row j by (i pi (j - row))^order, and after prolong to any
\* length the coefficient of the old zero-frequency row sits at the new one.
C12_ZeroFrequency ==
    LET r0 == C12_Row(n_(f0))
    IN  /\ const_index(f0) = r0
        /\ const_index(f) = C12_Row(n_(f))
        /\ res.op = "sum" =>
              res.out = [q \in 1..m_(f0) |->
                            IF f0.isReal[q] THEN RealPart(Twice(f0.coeffs[r0 + 1][q]))
                            ELSE Twice(f0.coeffs[r0 + 1][q])]
        /\ res.op = "diff" =>
              /\ n_(res.out) = n_(f0)
              /\ \A j \in 1..n_(f0) : \A q \in 1..m_(f0) :
                    res.out.coeffs[j][q] =
                        Mul(f0.coeffs[j][q], Pow(Norm(0, j - 1 - r0, 1, 1), res.arg))
        /\ res.op = "prolong" =>
              /\ n_(f) = res.arg
              /\ f.coeffs[C12_Row(n_(f)) + 1] = f0.coeffs[r0 + 1]

\* An even length with a nonzero mean was shortened to an odd length
C12_Witness ==
    /\ res.op = "prolong"
    /\ n_(f0) % 2 = 0 /\ n_(f) % 2 = 1 /\ n_(f) < n_(f0)
    /\ ~RowIsZero(f0.coeffs[C12_Row(n_(f0)) + 1])

(***************************************************************************)
(* Properties of the construction of the operator (SpecBuild).             *)
(***************************************************************************)
\* C13: when the size of the incoming state differs from the discretized
\* dimension, the state is resampled before discretize, matrix and rhs are
\* evaluated: once construction completes, M, P, S and b were computed from
\* the state as resampled, and shape[0] equals the state's size.
C13_ResampledFirst ==
    ctor.pc = "done" =>
        /\ ctor.linearized = Some(f.coeffs)
        /\ ctor.shape0 = StateSize(f)

(***************************************************************************)
(* Further properties of the deflated operator (SpecDefl).                 *)
(***************************************************************************)
\* The product over the known solutions of shift + 1 / ||u - u_k||^power
RECURSIVE C14_Eta(_, _)
C14_Eta(u, known) ==
    IF known = << >> THEN One
    ELSE LET d == [i \in 1..Dim |-> Sub(u[i], known[1][i])]
             n2 == SumSeq([i \in 1..Dim |-> Mul(d[i], d[i])])
         IN  Mul(Add(Cplx(shift, 0), Div(One, n2)), C14_Eta(u, Tail(known)))

\* C14: rhs(u) returns the plain residual at u when nothing is deflated and
\* eta(u) times it otherwise, eta(u) being evaluated at the argument; it
\* accepts a state wrapper as well as a raw state, and leaves the stored
\* eta, b, functional, M and known solutions unchanged.
C14_Rhs ==
    /\ A.eta = A0.self.eta /\ A.b = A0.self.b
    /\ A.functional = A0.self.functional /\ A.M = A0.self.M
    /\ A.known_solutions = A0.self.known_solutions
    /\ out.op = "rhs" =>
          /\ out.err = "none"
          /\ \E plain \in RhsVals :
                out.y = Some([i \in 1..Dim |->
                           Mul(plain[i], C14_Eta(out.x, A0.self.known_solutions))])

(***************************************************************************)
(* Further properties of the construction from a callable (SpecPop).       *)
(***************************************************************************)
\* The columns happy() scans: up to and including the first unhappy one
C15_Scanned(n, chop) ==
    {k \in 1..Len(chop) : \A j \in 1..(k - 1) : chop[j] < n}

\* C15: happy() on n rows is true iff the cutoff of every column is below
\* n; the returned length is 2 max_k floor(cutoff_k / 2) + 1 over the scanned
\* columns, is odd, and is at most n whenever happy, so the prolong after a
\* happy check never lengthens the stored arrays.
C15_Happy ==
    (pop.n > 0 /\ pop.pc \in {"loop", "leave"} /\ ~pop.giveUp) =>
        LET sc == C15_Scanned(pop.n, pop.chop)
        IN  /\ pop.ishappy <=> \A k \in 1..Len(pop.chop) : pop.chop[k] < pop.n
            /\ \A k \in sc : 2 * (pop.chop[k] \div 2) + 1 <= pop.cutoff
            /\ \E k \in sc : 2 * (pop.chop[k] \div 2) + 1 = pop.cutoff
            /\ pop.cutoff % 2 = 1
            /\ pop.ishappy => /\ pop.cutoff <= pop.n
                              /\ pop.coeffs.rows = pop.cutoff
                              /\ pop.coeffs.rows <= pop.n

\* A happy check of two columns whose larger cutoff is in the second column
C15_Witness ==
    /\ pop.pc = "leave" /\ pop.ishappy /\ ~pop.giveUp
    /\ Len(pop.chop) >= 2
    /\ pop.chop[1] < pop.chop[2]
    /\ pop.cutoff = pop.n

\* C16: after construction and any sequence of matvec, rmatvec, rhs,
\* to_matrix and precond calls, the known-solution set is non-empty iff the
\* functional is present iff eta is the deflation product (eta = 1 and no
\* functional otherwise); a preconditioner handed out by precond() has
\* ks > 0 iff it holds a functional iff its denominator was computed; and
\* no call changes the known-solution set.
C16_ModeConsistent ==
    LET known == A.known_solutions
    IN  /\ known = A0.self.known_solutions
        /\ (Len(known) > 0) <=> (A.functional # None)
        /\ A.eta = C14_Eta(A0.u, known)
        /\ Pc # None =>
              /\ Pc.ks = Len(known)
              /\ (Pc.ks > 0) <=> (Pc.functional # None)
              /\ (Pc.functional # None) <=> (Pc.denom # None)

\* A deflated operator whose preconditioner was built and applied
C16_Witness ==
    /\ Len(A.known_solutions) > 0
    /\ Pc # None /\ Pc.ks > 0 /\ Pc.denom # None
    /\ out.op = "pmatvec" /\ out.err = "none"

\* Column q of g holds the conjugated samples of column q of h, and the
\* conjugated coefficients of that column in reversed row order
C17_Conjugated(h, g, q) ==
    /\ n_(g) = n_(h) /\ m_(g) = m_(h)
    /\ \A j \in 1..n_(h) :
          /\ g.values.hat[j][q] = ConjCoeff(h.values.hat, j, q)
          /\ g.coeffs[j][q] = Conj(h.coeffs[n_(h) + 1 - j][q])

\* Column q of g holds the samples and the coefficients of column q of h
C17_Same(h, g, q) ==
    /\ n_(g) = n_(h) /\ m_(g) = m_(h)
    /\ \A j \in 1..n_(h) :
          /\ g.values.hat[j][q] = h.values.hat[j][q]
          /\ g.coeffs[j][q] = h.coeffs[j][q]

\* C17: conj(f) has, in every column not flagged real, the conjugated values
\* of f and its conjugated coefficients in reversed row order, and in every
\* column flagged real the values and coefficients of f, whether none, some
\* or all columns are flagged real; f itself is left unchanged.
C17_Conj ==
    res.op = "conj" =>
        /\ f = f0
        /\ \A q \in 1..m_(f) :
              IF f.isReal[q] THEN C17_Same(f, res.out, q)
              ELSE C17_Conjugated(f, res.out, q)

\* The same statement where at least one column is flagged real
C17_ConjSomeReal ==
    (res.op = "conj" /\ \E q \in 1..m_(f) : f.isReal[q]) =>
        /\ f = f0
        /\ \A q \in 1..m_(f) :
              IF f.isReal[q] THEN C17_Same(f, res.out, q)
              ELSE C17_Conjugated(f, res.out, q)

\* conj applied to a representation with a real and a non-real column
C17_MixedReached ==
    /\ res.op = "conj" /\ m_(f) = 2
    /\ f.isReal[1] /\ ~f.isReal[2]

====
